---------------------------- MODULE Spec2Model ----------------------------
(***************************************************************************)
(* Payment-instruction processor: the parse / validate / simulate pipeline *)
(* of parse-instruction.js and the request handler of process.js.          *)
(*                                                                         *)
(* A JavaScript string is a sequence of one-character strings; offsets are *)
(* 0-based as in the source.  null is the empty tuple Null and a present   *)
(* value v of a nullable field is the one-element tuple Some(v).           *)
(***************************************************************************)
EXTENDS Integers, Sequences, FiniteSets, TLC

VARIABLES
    pc,          \* position of the handler: "start", "returned", "thrown", "done"
    instruction, \* payload.instruction
    accounts,    \* payload.accounts
    today,       \* new Date().toISOString().split('T')[0]
    parsed,      \* the draft the dialect matchers produced
    response,    \* the value parseInstruction returned
    thrown,      \* the error parseInstruction threw
    httpResponse, \* what the handler returned
    transfer,    \* a transfer to be phrased in both dialects
    debitOutcome,  \* parseInstruction's outcome for its DEBIT phrasing
    creditOutcome, \* parseInstruction's outcome for its CREDIT phrasing
    argText,     \* the text findKeyword is called with
    argKeyword,  \* the keyword findKeyword is called with
    argStartIndex, \* the startIndex findKeyword is called with
    foundIndex   \* what findKeyword returned

vars == <<pc, instruction, accounts, today, parsed, response, thrown, httpResponse,
          transfer, debitOutcome, creditOutcome,
          argText, argKeyword, argStartIndex, foundIndex>>

pipelineVars == <<instruction, accounts, today, parsed, response, thrown, httpResponse>>
dialectVars == <<transfer, debitOutcome, creditOutcome>>
findVars == <<argText, argKeyword, argStartIndex, foundIndex>>

Null == <<>>
Some(v) == <<v>>

\* const x = v; F(x): v is evaluated once and F applied to its value
With(v, F(_)) == CHOOSE r \in {F(x) : x \in {v}} : TRUE

-----------------------------------------------------------------------------
(* Strings                                                                 *)

UpperLetters ==
    <<"A","B","C","D","E","F","G","H","I","J","K","L","M",
      "N","O","P","Q","R","S","T","U","V","W","X","Y","Z">>

LowerLetters ==
    <<"a","b","c","d","e","f","g","h","i","j","k","l","m",
      "n","o","p","q","r","s","t","u","v","w","x","y","z">>

Digits == <<"0","1","2","3","4","5","6","7","8","9">>

Range(s) == {s[i] : i \in DOMAIN s}

LowerOf == [c \in Range(UpperLetters) |->
               LowerLetters[CHOOSE i \in DOMAIN UpperLetters : UpperLetters[i] = c]]

UpperOf == [c \in Range(LowerLetters) |->
               UpperLetters[CHOOSE i \in DOMAIN LowerLetters : LowerLetters[i] = c]]

DigitValue == [c \in Range(Digits) |-> (CHOOSE i \in DOMAIN Digits : Digits[i] = c) - 1]

\* String.prototype.toLowerCase / toUpperCase
toLowerCase(s) == [i \in DOMAIN s |-> IF s[i] \in DOMAIN LowerOf THEN LowerOf[s[i]] ELSE s[i]]

toUpperCase(s) == [i \in DOMAIN s |-> IF s[i] \in DOMAIN UpperOf THEN UpperOf[s[i]] ELSE s[i]]

\* the characters String.prototype.trim removes
WhiteSpace == {" ", "\t", "\n"}

\* String.prototype.substring(from) and substring(from, to), 0-based
substringFrom(s, from) == SubSeq(s, from + 1, Len(s))

substring(s, from, to) == SubSeq(s, from + 1, to)

\* the first position at or after i holding no white space (Len(s) + 1 if none)
RECURSIVE skipWhiteSpace(_, _)
skipWhiteSpace(s, i) ==
    IF i > Len(s) THEN i
    ELSE IF s[i] \in WhiteSpace THEN skipWhiteSpace(s, i + 1)
    ELSE i

\* the last position at or before i holding no white space (0 if none)
RECURSIVE skipWhiteSpaceBack(_, _)
skipWhiteSpaceBack(s, i) ==
    IF i < 1 THEN i
    ELSE IF s[i] \in WhiteSpace THEN skipWhiteSpaceBack(s, i - 1)
    ELSE i

\* String.prototype.trim
trim(s) == SubSeq(s, skipWhiteSpace(s, 1), skipWhiteSpaceBack(s, Len(s)))

\* whether needle occurs in s at 0-based offset i
occursAt(s, needle, i) == \A j \in DOMAIN needle : s[i + j] = needle[j]

RECURSIVE scanFor(_, _, _)
scanFor(s, needle, i) ==
    IF i > Len(s) - Len(needle) THEN -1
    ELSE IF occursAt(s, needle, i) THEN i
    ELSE scanFor(s, needle, i + 1)

\* String.prototype.indexOf(needle, from): 0-based offset or -1
indexOf(s, needle, from) == scanFor(s, needle, IF from < 0 THEN 0 ELSE from)

\* String.prototype.includes of one character
includes(s, c) == \E i \in DOMAIN s : s[i] = c

-----------------------------------------------------------------------------
(* Helpers of parse-instruction.js                                         *)

normalizeString(str) == toLowerCase(trim(str))

findKeyword(text, keyword, startIndex) ==
    indexOf(normalizeString(text), normalizeString(keyword), startIndex)

\* the while loop of extractWord: the first offset at or after endIndex
\* holding a space or a tab (text.length if none)
RECURSIVE wordEnd(_, _)
wordEnd(text, endIndex) ==
    IF endIndex < Len(text) /\ text[endIndex + 1] # " " /\ text[endIndex + 1] # "\t"
    THEN wordEnd(text, endIndex + 1)
    ELSE endIndex

extractWord(text, startIndex) ==
    trim(substring(text, startIndex, wordEnd(text, startIndex)))

isValidAccountId(accountId) ==
    /\ \A i \in DOMAIN accountId :
          \/ accountId[i] \in Range(LowerLetters)
          \/ accountId[i] \in Range(UpperLetters)
          \/ accountId[i] \in Range(Digits)
          \/ accountId[i] \in {"-", ".", "@"}
    /\ Len(accountId) > 0

KwDebit == <<"D","E","B","I","T">>
KwCredit == <<"C","R","E","D","I","T">>
KwFrom == <<"F","R","O","M">>
KwTo == <<"T","O">>
KwFor == <<"F","O","R">>
KwAccount == <<"A","C","C","O","U","N","T">>
KwOn == <<"O","N">>

NoMatch == [matched |-> FALSE]

parseDebitFormat(instruction_) ==
    LET debitIndex == findKeyword(instruction_, KwDebit, 0) IN
    IF debitIndex = -1 THEN NoMatch ELSE
    With(trim(substringFrom(instruction_, debitIndex + 5)), LAMBDA afterDebit :
    IF Len(afterDebit) = 0 THEN NoMatch ELSE
    LET amountStr == extractWord(afterDebit, 0) IN
    With(trim(substringFrom(afterDebit, Len(amountStr))), LAMBDA afterAmount :
    IF Len(afterAmount) = 0 THEN NoMatch ELSE
    LET currencyStr == extractWord(afterAmount, 0)
        fromIndex == findKeyword(afterAmount, KwFrom, 0) IN
    IF fromIndex = -1 THEN NoMatch ELSE
    With(trim(substringFrom(afterAmount, fromIndex + 4)), LAMBDA afterFrom :
    LET accountKeyword == findKeyword(afterFrom, KwAccount, 0) IN
    IF accountKeyword = -1 THEN NoMatch ELSE
    With(trim(substringFrom(afterFrom, accountKeyword + 7)), LAMBDA afterAccount :
    LET forIndex == findKeyword(afterAccount, KwFor, 0) IN
    IF forIndex = -1 THEN NoMatch ELSE
    With(trim(substringFrom(afterAccount, forIndex + 3)), LAMBDA afterFor :
    LET creditKeyword == findKeyword(afterFor, KwCredit, 0) IN
    IF creditKeyword = -1 THEN NoMatch ELSE
    With(trim(substringFrom(afterFor, creditKeyword + 6)), LAMBDA afterCredit :
    LET toKeyword == findKeyword(afterCredit, KwTo, 0) IN
    IF toKeyword = -1 THEN NoMatch ELSE
    With(trim(substringFrom(afterCredit, toKeyword + 2)), LAMBDA afterTo :
    LET account2Keyword == findKeyword(afterTo, KwAccount, 0) IN
    IF account2Keyword = -1 THEN NoMatch ELSE
    With(trim(substringFrom(afterTo, account2Keyword + 7)), LAMBDA afterAccount2 :
    LET onIndex == findKeyword(afterAccount2, KwOn, 0)
        afterOn == trim(substringFrom(afterAccount2, onIndex + 2)) IN
        [matched |-> TRUE,
         type |-> "DEBIT",
         amount |-> amountStr,
         currency |-> toUpperCase(currencyStr),
         debitAccount |-> extractWord(afterAccount, 0),
         creditAccount |-> extractWord(afterAccount2, 0),
         executeBy |-> IF onIndex # -1 THEN Some(extractWord(afterOn, 0)) ELSE Null]
    ))))))))

parseCreditFormat(instruction_) ==
    LET creditIndex == findKeyword(instruction_, KwCredit, 0) IN
    IF creditIndex = -1 THEN NoMatch ELSE
    With(trim(substringFrom(instruction_, creditIndex + 6)), LAMBDA afterCredit :
    IF Len(afterCredit) = 0 THEN NoMatch ELSE
    LET amountStr == extractWord(afterCredit, 0) IN
    With(trim(substringFrom(afterCredit, Len(amountStr))), LAMBDA afterAmount :
    IF Len(afterAmount) = 0 THEN NoMatch ELSE
    LET currencyStr == extractWord(afterAmount, 0)
        toIndex == findKeyword(afterAmount, KwTo, 0) IN
    IF toIndex = -1 THEN NoMatch ELSE
    With(trim(substringFrom(afterAmount, toIndex + 2)), LAMBDA afterTo :
    LET accountKeyword == findKeyword(afterTo, KwAccount, 0) IN
    IF accountKeyword = -1 THEN NoMatch ELSE
    With(trim(substringFrom(afterTo, accountKeyword + 7)), LAMBDA afterAccount :
    LET forIndex == findKeyword(afterAccount, KwFor, 0) IN
    IF forIndex = -1 THEN NoMatch ELSE
    With(trim(substringFrom(afterAccount, forIndex + 3)), LAMBDA afterFor :
    LET debitKeyword == findKeyword(afterFor, KwDebit, 0) IN
    IF debitKeyword = -1 THEN NoMatch ELSE
    With(trim(substringFrom(afterFor, debitKeyword + 5)), LAMBDA afterDebit :
    LET fromKeyword == findKeyword(afterDebit, KwFrom, 0) IN
    IF fromKeyword = -1 THEN NoMatch ELSE
    With(trim(substringFrom(afterDebit, fromKeyword + 4)), LAMBDA afterFrom :
    LET account2Keyword == findKeyword(afterFrom, KwAccount, 0) IN
    IF account2Keyword = -1 THEN NoMatch ELSE
    With(trim(substringFrom(afterFrom, account2Keyword + 7)), LAMBDA afterAccount2 :
    LET onIndex == findKeyword(afterAccount2, KwOn, 0)
        afterOn == trim(substringFrom(afterAccount2, onIndex + 2)) IN
        [matched |-> TRUE,
         type |-> "CREDIT",
         amount |-> amountStr,
         currency |-> toUpperCase(currencyStr),
         creditAccount |-> extractWord(afterAccount, 0),
         debitAccount |-> extractWord(afterAccount2, 0),
         executeBy |-> IF onIndex # -1 THEN Some(extractWord(afterOn, 0)) ELSE Null]
    ))))))))

-----------------------------------------------------------------------------
(* Numbers and dates                                                       *)

NaN == [nan |-> TRUE, val |-> 0]
Num(n) == [nan |-> FALSE, val |-> n]

RECURSIVE digitsValue(_)
digitsValue(s) ==
    IF Len(s) = 0 THEN 0
    ELSE 10 * digitsValue(SubSeq(s, 1, Len(s) - 1)) + DigitValue[s[Len(s)]]

\* the first position at or after i holding no digit (Len(s) + 1 if none)
RECURSIVE digitsEnd(_, _)
digitsEnd(s, i) ==
    IF i > Len(s) THEN i
    ELSE IF s[i] \in Range(Digits) THEN digitsEnd(s, i + 1)
    ELSE i

\* parseInt(str, 10): leading white space is skipped, then an optional sign,
\* then the longest run of digits; what follows the digits is ignored
parseInt(str) ==
    LET start == skipWhiteSpace(str, 1)
        signed == start <= Len(str) /\ str[start] \in {"+", "-"}
        first == IF signed THEN start + 1 ELSE start
        last == digitsEnd(str, first) - 1
        magnitude == digitsValue(SubSeq(str, first, last))
    IN  IF last < first THEN NaN
        ELSE IF signed /\ str[start] = "-" THEN Num(0 - magnitude)
        ELSE Num(magnitude)

isValidDateFormat(dateStr) ==
    LET dashes == {i \in DOMAIN dateStr : dateStr[i] = "-"}
        year == parseInt(substring(dateStr, 0, 4))
        month == parseInt(substring(dateStr, 5, 7))
        day == parseInt(substring(dateStr, 8, 10))
    IN  IF Len(dateStr) # 10 THEN FALSE
        ELSE IF dateStr[5] # "-" \/ dateStr[8] # "-" THEN FALSE
        ELSE IF Cardinality(dashes) # 2 THEN FALSE
        ELSE IF year.nan \/ month.nan \/ day.nan THEN FALSE
        ELSE IF year.val < 1000 \/ year.val > 9999 THEN FALSE
        ELSE IF month.val < 1 \/ month.val > 12 THEN FALSE
        ELSE IF day.val < 1 \/ day.val > 31 THEN FALSE
        ELSE TRUE

isLeapYear(y) == (y % 4 = 0 /\ y % 100 # 0) \/ y % 400 = 0

daysBeforeMonth(y, m) ==
    <<0, 31, 59, 90, 120, 151, 181, 212, 243, 273, 304, 334>>[m]
    + (IF m > 2 /\ isLeapYear(y) THEN 1 ELSE 0)

leapDaysBefore(y) == ((y - 1) \div 4) - ((y - 1) \div 100) + ((y - 1) \div 400)

\* days from 1970-01-01 to day d of month m of year y; a day past the end of
\* the month runs on into the following month
dayNumber(y, m, d) ==
    365 * (y - 1970) + leapDaysBefore(y) - leapDaysBefore(1970)
    + daysBeforeMonth(y, m) + d - 1

allDigits(s) == \A i \in DOMAIN s : s[i] \in Range(Digits)

\* new Date(`${dateStr}T00:00:00Z`).getTime(), counted in days rather than
\* milliseconds: the time value of a string in the date-time format with
\* month 01..12 and day 01..31, NaN (Invalid Date) for any other string
dateGetTime(dateStr) ==
    LET y == substring(dateStr, 0, 4)
        m == substring(dateStr, 5, 7)
        d == substring(dateStr, 8, 10)
    IN  IF /\ Len(dateStr) = 10
           /\ dateStr[5] = "-" /\ dateStr[8] = "-"
           /\ allDigits(y) /\ allDigits(m) /\ allDigits(d)
           /\ digitsValue(m) \in 1..12
           /\ digitsValue(d) \in 1..31
        THEN Num(dayNumber(digitsValue(y), digitsValue(m), digitsValue(d)))
        ELSE NaN

\* d1.getTime() - d2.getTime()
compareDates(dateStr1, dateStr2) ==
    LET d1 == dateGetTime(dateStr1)
        d2 == dateGetTime(dateStr2)
    IN  IF d1.nan \/ d2.nan THEN NaN ELSE Num(d1.val - d2.val)

\* the comparison with >= in place of >: today's date counted as future
isFutureDateInclusive(dateStr, todayStr) ==
    LET c == compareDates(dateStr, todayStr)
    IN  ~c.nan /\ c.val >= 0

\* todayStr is the UTC date of the call
isFutureDate(dateStr, todayStr) ==
    LET c == compareDates(dateStr, todayStr)
    IN  ~c.nan /\ c.val > 0

-----------------------------------------------------------------------------
(* parseInstruction                                                        *)

CurUSD == <<"U","S","D">>
CurNGN == <<"N","G","N">>
CurGBP == <<"G","B","P">>
CurGHS == <<"G","H","S">>

SUPPORTED_CURRENCIES == {CurNGN, CurUSD, CurGBP, CurGHS}

STATUS_CODES ==
    [INVALID_AMOUNT |-> "AM01",
     CURRENCY_MISMATCH |-> "CU01",
     UNSUPPORTED_CURRENCY |-> "CU02",
     INSUFFICIENT_FUNDS |-> "AC01",
     SAME_ACCOUNT |-> "AC02",
     ACCOUNT_NOT_FOUND |-> "AC03",
     INVALID_ACCOUNT_ID |-> "AC04",
     INVALID_DATE |-> "DT01",
     MISSING_KEYWORD |-> "SY01",
     INVALID_KEYWORD_ORDER |-> "SY02",
     MALFORMED |-> "SY03",
     SUCCESS |-> "AP00",
     PENDING |-> "AP02"]

\* throwAppError(message, errorCode, {context: {status_code}})
AppError(message, errorCode, statusCode) ==
    [message |-> message, code |-> errorCode, status_code |-> statusCode]

\* let parsed = parseDebitFormat(instruction); if (!parsed) parsed = parseCreditFormat(instruction)
parseEither(instruction_) ==
    LET debit == parseDebitFormat(instruction_)
    IN  IF debit.matched THEN debit ELSE parseCreditFormat(instruction_)

\* the test without its last disjunct: an empty credit account goes unnoticed
isMalformedCreditUnchecked(draft) ==
    \/ ~draft.matched
    \/ Len(draft.amount) = 0
    \/ Len(draft.currency) = 0
    \/ Len(draft.debitAccount) = 0

\* the "completely unparseable" test on the draft
isMalformed(draft) ==
    \/ ~draft.matched
    \/ Len(draft.amount) = 0
    \/ Len(draft.currency) = 0
    \/ Len(draft.debitAccount) = 0
    \/ Len(draft.creditAccount) = 0

malformedResponse ==
    [type |-> Null,
     amount |-> Null,
     currency |-> Null,
     debit_account |-> Null,
     credit_account |-> Null,
     execute_by |-> Null,
     status |-> "failed",
     status_reason |-> "MALFORMED_INSTRUCTION",
     status_code |-> STATUS_CODES.MALFORMED,
     accounts |-> <<>>]

\* the amount checks: true when the amount token is rejected
amountRejected(draft) ==
    LET amountStr == trim(draft.amount)
        amount == parseInt(amountStr)
    IN  \/ Len(amountStr) = 0
        \/ includes(amountStr, "-")
        \/ includes(amountStr, ".")
        \/ amount.nan
        \/ amount.val <= 0

\* parsed.amount = amount
validatedAmount(draft) == parseInt(trim(draft.amount)).val

\* accounts.find((acc) => acc.id === id): the index of the first, 0 for undefined
RECURSIVE findFrom(_, _, _)
findFrom(accounts_, id, i) ==
    IF i > Len(accounts_) THEN 0
    ELSE IF accounts_[i].id = id THEN i
    ELSE findFrom(accounts_, id, i + 1)

findAccount(accounts_, id) == findFrom(accounts_, id, 1)

\* truthiness of parsed.executeBy: neither null nor the empty string
hasExecuteBy(draft) == draft.executeBy # Null /\ Len(draft.executeBy[1]) > 0

\* let shouldExecute = true; if (parsed.executeBy) shouldExecute = !isFutureDate(...)
shouldExecute(draft, todayStr) ==
    IF hasExecuteBy(draft) THEN ~isFutureDate(draft.executeBy[1], todayStr) ELSE TRUE

\* the checks on the draft alone: amount, currency, account ids, same account
fieldError(draft) ==
    IF amountRejected(draft)
    THEN Some(AppError("INVALID_AMOUNT", "INVLDDATA", STATUS_CODES.INVALID_AMOUNT))
    ELSE IF toUpperCase(draft.currency) \notin SUPPORTED_CURRENCIES
    THEN Some(AppError("UNSUPPORTED_CURRENCY", "INVLDDATA", STATUS_CODES.UNSUPPORTED_CURRENCY))
    ELSE IF ~isValidAccountId(draft.debitAccount)
    THEN Some(AppError("INVALID_ACCOUNT_ID", "INVLDDATA", STATUS_CODES.INVALID_ACCOUNT_ID))
    ELSE IF ~isValidAccountId(draft.creditAccount)
    THEN Some(AppError("INVALID_ACCOUNT_ID", "INVLDDATA", STATUS_CODES.INVALID_ACCOUNT_ID))
    ELSE IF draft.debitAccount = draft.creditAccount
    THEN Some(AppError("SAME_ACCOUNT_ERROR", "INVLDDATA", STATUS_CODES.SAME_ACCOUNT))
    ELSE Null

\* both accounts are looked up, then the debit account is tested, then the credit account
lookupError(draft, accounts_) ==
    IF findAccount(accounts_, draft.debitAccount) = 0
    THEN Some(AppError("ACCOUNT_NOT_FOUND", "NOTFOUND", STATUS_CODES.ACCOUNT_NOT_FOUND))
    ELSE IF findAccount(accounts_, draft.creditAccount) = 0
    THEN Some(AppError("ACCOUNT_NOT_FOUND", "NOTFOUND", STATUS_CODES.ACCOUNT_NOT_FOUND))
    ELSE Null

\* the two currency checks; both accounts were found
currencyMismatchError(draft, accounts_) ==
    LET debitAccountObj == accounts_[findAccount(accounts_, draft.debitAccount)]
        creditAccountObj == accounts_[findAccount(accounts_, draft.creditAccount)]
    IN  IF toUpperCase(debitAccountObj.currency) # toUpperCase(creditAccountObj.currency)
        THEN Some(AppError("CURRENCY_MISMATCH", "INVLDDATA", STATUS_CODES.CURRENCY_MISMATCH))
        ELSE IF toUpperCase(debitAccountObj.currency) # toUpperCase(draft.currency)
        THEN Some(AppError("CURRENCY_MISMATCH", "INVLDDATA", STATUS_CODES.CURRENCY_MISMATCH))
        ELSE Null

\* if (parsed.executeBy) { if (!isValidDateFormat(parsed.executeBy)) throw ... }
dateError(draft) ==
    IF hasExecuteBy(draft) /\ ~isValidDateFormat(draft.executeBy[1])
    THEN Some(AppError("INVALID_DATE_FORMAT", "INVLDDATA", STATUS_CODES.INVALID_DATE))
    ELSE Null

\* the funds check without the shouldExecute condition
fundsErrorAlways(draft, accounts_, todayStr) ==
    IF accounts_[findAccount(accounts_, draft.debitAccount)].balance < validatedAmount(draft)
    THEN Some(AppError("INSUFFICIENT_FUNDS", "INVLDDATA", STATUS_CODES.INSUFFICIENT_FUNDS))
    ELSE Null

\* if (shouldExecute && debitAccountObj.balance < parsed.amount) throw ...
fundsError(draft, accounts_, todayStr) ==
    IF /\ shouldExecute(draft, todayStr)
       /\ accounts_[findAccount(accounts_, draft.debitAccount)].balance < validatedAmount(draft)
    THEN Some(AppError("INSUFFICIENT_FUNDS", "INVLDDATA", STATUS_CODES.INSUFFICIENT_FUNDS))
    ELSE Null

\* the chain with the account lookup moved before the field checks
firstErrorLookupFirst(draft, accounts_, todayStr) ==
    IF lookupError(draft, accounts_) # Null THEN lookupError(draft, accounts_)
    ELSE IF fieldError(draft) # Null THEN fieldError(draft)
    ELSE IF currencyMismatchError(draft, accounts_) # Null
    THEN currencyMismatchError(draft, accounts_)
    ELSE IF dateError(draft) # Null THEN dateError(draft)
    ELSE fundsError(draft, accounts_, todayStr)

\* the chain of checks after the malformed test: the error the first failing
\* check throws, Null when every check passes
firstError(draft, accounts_, todayStr) ==
    IF fieldError(draft) # Null THEN fieldError(draft)
    ELSE IF lookupError(draft, accounts_) # Null THEN lookupError(draft, accounts_)
    ELSE IF currencyMismatchError(draft, accounts_) # Null
    THEN currencyMismatchError(draft, accounts_)
    ELSE IF dateError(draft) # Null THEN dateError(draft)
    ELSE fundsError(draft, accounts_, todayStr)

\* the two views, balances updated when the transfer executes, pushed in the
\* order of the input list
accountsResponse(draft, accounts_, execute) ==
    LET amount == validatedAmount(draft)
        debitAccountObj == accounts_[findAccount(accounts_, draft.debitAccount)]
        creditAccountObj == accounts_[findAccount(accounts_, draft.creditAccount)]
        debitAccountResponse ==
            [id |-> debitAccountObj.id,
             balance |-> IF execute THEN debitAccountObj.balance - amount
                         ELSE debitAccountObj.balance,
             balance_before |-> debitAccountObj.balance,
             currency |-> toUpperCase(debitAccountObj.currency)]
        creditAccountResponse ==
            [id |-> creditAccountObj.id,
             balance |-> IF execute THEN creditAccountObj.balance + amount
                         ELSE creditAccountObj.balance,
             balance_before |-> creditAccountObj.balance,
             currency |-> toUpperCase(creditAccountObj.currency)]
        pushed == [i \in DOMAIN accounts_ |->
                     IF accounts_[i].id = draft.debitAccount THEN <<debitAccountResponse>>
                     ELSE IF accounts_[i].id = draft.creditAccount THEN <<creditAccountResponse>>
                     ELSE <<>>]
        flatten[n \in 0 .. Len(accounts_)] ==
            IF n = 0 THEN <<>> ELSE flatten[n - 1] \o pushed[n]
    IN  flatten[Len(accounts_)]

successResponse(draft, accounts_, todayStr) ==
    LET execute == shouldExecute(draft, todayStr)
    IN  [type |-> Some(draft.type),
         amount |-> Some(validatedAmount(draft)),
         currency |-> Some(toUpperCase(draft.currency)),
         debit_account |-> Some(draft.debitAccount),
         credit_account |-> Some(draft.creditAccount),
         execute_by |-> IF hasExecuteBy(draft) THEN draft.executeBy ELSE Null,
         status |-> IF execute THEN "successful" ELSE "pending",
         status_reason |-> IF execute THEN "TRANSACTION_SUCCESSFUL" ELSE "TRANSACTION_PENDING",
         status_code |-> IF execute THEN STATUS_CODES.SUCCESS ELSE STATUS_CODES.PENDING,
         accounts |-> accountsResponse(draft, accounts_, execute)]

\* parseInstruction from the malformed test on: what it returns or throws
outcomeOf(draft, accounts_, todayStr) ==
    IF isMalformed(draft)
    THEN [parsed |-> draft, response |-> Some(malformedResponse), thrown |-> Null]
    ELSE LET error == firstError(draft, accounts_, todayStr)
         IN  IF error # Null
             THEN [parsed |-> draft, response |-> Null, thrown |-> error]
             ELSE [parsed |-> draft,
                   response |-> Some(successResponse(draft, accounts_, todayStr)),
                   thrown |-> Null]

\* the whole function, with the draft it worked on
parseInstruction(instruction_, accounts_, todayStr) ==
    outcomeOf(parseEither(instruction_), accounts_, todayStr)

-----------------------------------------------------------------------------
(* The request handler of process.js                                       *)

\* payload.accounts.map(...) of the catch branch
echoAccounts(accounts_) ==
    [i \in DOMAIN accounts_ |->
        [id |-> accounts_[i].id,
         balance |-> accounts_[i].balance,
         balance_before |-> accounts_[i].balance,
         currency |-> toUpperCase(accounts_[i].currency)]]

failedResponse(error, accounts_) ==
    [type |-> Null,
     amount |-> Null,
     currency |-> Null,
     debit_account |-> Null,
     credit_account |-> Null,
     execute_by |-> Null,
     status |-> "failed",
     status_reason |-> error.message,
     status_code |-> error.status_code,
     accounts |-> echoAccounts(accounts_)]

-----------------------------------------------------------------------------
(* Requests                                                                *)

\* the longest account list of a request
MaxAccounts == 3

\* the longest text findKeyword is applied to on its own
MaxTextLen == 4

RECURSIVE joinWith(_, _)
joinWith(words, sep) ==
    IF Len(words) = 0 THEN <<>>
    ELSE IF Len(words) = 1 THEN words[1]
    ELSE words[1] \o sep \o joinWith(Tail(words), sep)

join(words) == joinWith(words, <<" ">>)

IdA1 == <<"A","1">>
IdA2 == <<"A","2">>
IdBad == <<"B","#">>
IdBond == <<"B","O","N","D">>
IdJon == <<"J","O","N">>
CurEUR == <<"E","U","R">>

Date0228 == <<"2","0","2","5","-","0","2","-","2","8">>
Date0301 == <<"2","0","2","5","-","0","3","-","0","1">>
Date0302 == <<"2","0","2","5","-","0","3","-","0","2">>
Date0230 == <<"2","0","2","5","-","0","2","-","3","0">>
DateShort == <<"2","0","2","5","-","3","-","0","2">>

debitWords(t) ==
    <<KwDebit, t.amount, t.currency, KwFrom, KwAccount, t.debit,
      KwFor, KwCredit, KwTo, KwAccount, t.credit>>
    \o (IF t.date = Null THEN <<>> ELSE <<KwOn, t.date[1]>>)

creditWords(t) ==
    <<KwCredit, t.amount, t.currency, KwTo, KwAccount, t.credit,
      KwFor, KwDebit, KwFrom, KwAccount, t.debit>>
    \o (IF t.date = Null THEN <<>> ELSE <<KwOn, t.date[1]>>)

debitPhrasing(t) == join(debitWords(t))

creditPhrasing(t) == join(creditWords(t))

\* the transfers whose checks fail or pass in every combination
CoreTransfers ==
    [amount : {<<"3">>, <<"7">>, <<"0">>},
     currency : {<<"u","s","d">>, CurNGN, CurEUR},
     debit : {IdA1, IdA2, IdBad},
     credit : {IdA1, IdA2, IdBad},
     date : {Null, Some(Date0302), Some(DateShort)}]

\* amount tokens
AmountTokens ==
    {<<"5","0","0">>, <<"-","5">>, <<"5",".","5">>, <<"0">>, <<"a","b","c">>,
     <<"5","x">>, <<"+","5">>, <<"0","0","7">>}

AmountTransfers ==
    [amount : AmountTokens, currency : {CurUSD}, debit : {IdA1}, credit : {IdA2},
     date : {Null, Some(Date0302)}]

\* execute-by tokens
DateTokens ==
    {Date0228, Date0301, Date0302, Date0230,
     DateShort,
     <<"2","0","2","5","-","1","x","-","0","1">>,
     <<"2","0","2","5","-","0","3","-","2","x">>,
     <<"2","0","2","5","-","1","3","-","0","1">>,
     <<"2","0","2","5","-","0","3","-","3","2">>,
     <<"2","0","2","5","-","0","0","-","1","0">>,
     <<"0","9","9","9","-","0","1","-","0","1">>,
     <<"2","0","2","5","/","0","3","/","0","2">>,
     <<"2","0","2","5","0","3","0","2">>}

DateTransfers ==
    [amount : {<<"3">>, <<"7">>}, currency : {CurUSD}, debit : {IdA1}, credit : {IdA2},
     date : {Some(d) : d \in DateTokens}]

\* account-id tokens that hold the letters of a keyword
IdTransfers ==
    [amount : {<<"3">>}, currency : {CurUSD},
     debit : {IdA1, IdBond, IdJon}, credit : {IdA2, IdBond, IdJon},
     date : {Null, Some(Date0302)}]

ShapeTransfers ==
    [amount : {<<"3">>}, currency : {CurUSD}, debit : {IdA1}, credit : {IdA2},
     date : {Null, Some(Date0302)}]

dropWord(words, k) == SubSeq(words, 1, k - 1) \o SubSeq(words, k + 1, Len(words))

\* the words that are not the amount, the currency, an account id or the date
lowerKeywords(words) ==
    [i \in DOMAIN words |-> IF i \in {2, 3, 6, 11, 13} THEN words[i] ELSE toLowerCase(words[i])]

\* the phrasings of words: plain, keywords in lower case, two spaces between
\* words, white space in front, and one word left out
shapesOf(words) ==
    {join(words), join(lowerKeywords(words)), joinWith(words, <<" ", " ">>),
     <<" ">> \o join(words), <<"\t", " ">> \o join(words)}
    \cup {join(dropWord(words, k)) : k \in DOMAIN words}

Transfer100 == join(<<<<"T","R","A","N","S","F","E","R">>, <<"1","0","0">>, CurUSD>>)

Instructions ==
    {debitPhrasing(t) : t \in CoreTransfers \cup AmountTransfers \cup DateTransfers \cup IdTransfers}
    \cup {creditPhrasing(t) : t \in AmountTransfers \cup DateTransfers \cup IdTransfers}
    \cup UNION {shapesOf(debitWords(t)) \cup shapesOf(creditWords(t)) : t \in ShapeTransfers}
    \cup {Transfer100}

AccountPool ==
    {[id |-> IdA1, balance |-> 5, currency |-> <<"u","s","d">>],
     [id |-> IdA2, balance |-> 0, currency |-> CurUSD],
     [id |-> IdA2, balance |-> 2, currency |-> CurNGN],
     [id |-> IdBond, balance |-> 900, currency |-> CurUSD]}

\* the lists of at most MaxAccounts accounts of the pool, none taken twice
AccountLists ==
    UNION {{l \in [1..n -> AccountPool] : \A i, j \in 1..n : l[i] = l[j] => i = j} :
              n \in 0..MaxAccounts}

Todays == {Date0228, Date0301}

Init ==
    /\ pc = "start"
    /\ instruction \in Instructions
    /\ accounts \in AccountLists
    /\ today \in Todays
    /\ parsed = Null
    /\ response = Null
    /\ thrown = Null
    /\ httpResponse = Null
    /\ transfer = Null /\ debitOutcome = Null /\ creditOutcome = Null
    /\ argText = Null /\ argKeyword = Null /\ argStartIndex = 0 /\ foundIndex = Null

\* const response = await parseInstruction(payload)
CallParseInstruction ==
    /\ pc = "start"
    /\ \E r \in {parseInstruction(instruction, accounts, today)} :
           /\ parsed' = Some(r.parsed)
           /\ response' = r.response
           /\ thrown' = r.thrown
           /\ pc' = IF r.thrown = Null THEN "returned" ELSE "thrown"
    /\ UNCHANGED <<instruction, accounts, today, httpResponse, dialectVars, findVars>>

\* the try branch: the HTTP status follows response.status
HandlerReturn ==
    /\ pc = "returned"
    /\ httpResponse' =
          Some([status |-> IF response[1].status = "failed"
                           THEN "HTTP_400_BAD_REQUEST" ELSE "HTTP_200_OK",
                data |-> response[1]])
    /\ pc' = "done"
    /\ UNCHANGED <<instruction, accounts, today, parsed, response, thrown, dialectVars, findVars>>

\* the catch branch: an application error with a status code becomes a failed response
HandlerCatch ==
    /\ pc = "thrown"
    /\ httpResponse' =
          Some([status |-> "HTTP_400_BAD_REQUEST",
                data |-> failedResponse(thrown[1], accounts)])
    /\ pc' = "done"
    /\ UNCHANGED <<instruction, accounts, today, parsed, response, thrown, dialectVars, findVars>>

Next == CallParseInstruction \/ HandlerReturn \/ HandlerCatch

Spec == Init /\ [][Next]_vars

-----------------------------------------------------------------------------
(* One transfer phrased in both dialects                                   *)

DialectTransfers == AmountTransfers \cup DateTransfers \cup IdTransfers

InitDialects ==
    /\ pc = "start"
    /\ transfer \in DialectTransfers
    /\ accounts \in AccountLists
    /\ today \in Todays
    /\ debitOutcome = Null
    /\ creditOutcome = Null
    /\ instruction = Null /\ parsed = Null /\ response = Null
    /\ thrown = Null /\ httpResponse = Null
    /\ argText = Null /\ argKeyword = Null /\ argStartIndex = 0 /\ foundIndex = Null

CallDebitPhrasing ==
    /\ debitOutcome = Null
    /\ debitOutcome' = Some(parseInstruction(debitPhrasing(transfer), accounts, today))
    /\ pc' = IF creditOutcome = Null THEN pc ELSE "done"
    /\ UNCHANGED <<pipelineVars, transfer, creditOutcome, findVars>>

CallCreditPhrasing ==
    /\ creditOutcome = Null
    /\ creditOutcome' = Some(parseInstruction(creditPhrasing(transfer), accounts, today))
    /\ pc' = IF debitOutcome = Null THEN pc ELSE "done"
    /\ UNCHANGED <<pipelineVars, transfer, debitOutcome, findVars>>

NextDialects == CallDebitPhrasing \/ CallCreditPhrasing

SpecDialects == InitDialects /\ [][NextDialects]_vars

-----------------------------------------------------------------------------
(* findKeyword on its own                                                  *)

FindAlphabet == {" ", "a", "b", "B"}

FindTexts == UNION {[1..n -> FindAlphabet] : n \in 0..MaxTextLen}

FindKeywords == {<<"A","B">>, <<"b">>}

InitFind ==
    /\ pc = "start"
    /\ argText \in FindTexts
    /\ argKeyword \in FindKeywords
    /\ argStartIndex \in 0..MaxTextLen
    /\ foundIndex = Null
    /\ instruction = Null /\ accounts = Null /\ today = Null /\ parsed = Null
    /\ response = Null /\ thrown = Null /\ httpResponse = Null
    /\ transfer = Null /\ debitOutcome = Null /\ creditOutcome = Null

CallFindKeyword ==
    /\ pc = "start"
    /\ foundIndex = Null
    /\ foundIndex' = Some(findKeyword(argText, argKeyword, argStartIndex))
    /\ pc' = "done"
    /\ UNCHANGED <<pipelineVars, dialectVars, argText, argKeyword, argStartIndex>>

NextFind == CallFindKeyword

SpecFind == InitFind /\ [][NextFind]_vars

-----------------------------------------------------------------------------
(* Properties                                                              *)

\* parseInstruction has just returned or thrown
Called == pc \in {"returned", "thrown"}

\* the draft passed the malformed test
Matched == Called /\ ~isMalformed(parsed[1])

statusCodeThrown == IF thrown = Null THEN "none" ELSE thrown[1].status_code

\* the first account of the list with this id exists
accountListed(id) == \E i \in DOMAIN accounts : accounts[i].id = id

\* the first account of the list with this id
firstListed(id) ==
    accounts[CHOOSE i \in DOMAIN accounts :
                /\ accounts[i].id = id
                /\ \A j \in DOMAIN accounts : accounts[j].id = id => i <= j]

\* YYYY-MM-DD: four digits 1000..9999, two digits 1..12, two digits 1..31
strictDateShape(token) ==
    /\ Len(token) = 10
    /\ token[5] = "-" /\ token[8] = "-"
    /\ \A i \in {1, 2, 3, 4, 6, 7, 9, 10} : token[i] \in Range(Digits)
    /\ digitsValue(SubSeq(token, 1, 4)) \in 1000..9999
    /\ digitsValue(SubSeq(token, 6, 7)) \in 1..12
    /\ digitsValue(SubSeq(token, 9, 10)) \in 1..31

\* the order of two tokens of the strict shape as ISO date strings
isoKey(token) ==
    digitsValue(SubSeq(token, 1, 4)) * 10000
    + digitsValue(SubSeq(token, 6, 7)) * 100
    + digitsValue(SubSeq(token, 9, 10))

\* the token names a day of the calendar
calendarDate(token) ==
    LET y == digitsValue(SubSeq(token, 1, 4))
        m == digitsValue(SubSeq(token, 6, 7))
        d == digitsValue(SubSeq(token, 9, 10))
        long == m \in {1, 3, 5, 7, 8, 10, 12}
        leap == (y % 4 = 0 /\ y % 100 # 0) \/ y % 400 = 0
    IN  /\ strictDateShape(token)
        /\ d <= (IF long THEN 31 ELSE IF m # 2 THEN 30 ELSE IF leap THEN 29 ELSE 28)

\* a non-empty string of digits
digitString(token) == Len(token) > 0 /\ \A i \in DOMAIN token : token[i] \in Range(Digits)

\* the views of response.accounts for this id
viewsOf(id) == {i \in DOMAIN response[1].accounts : response[1].accounts[i].id = id}

\* C1: for every draft that passed the malformed test, parseInstruction throws
\* the status code of the first failing check in the order amount (AM01),
\* currency whitelist (CU02), debit account id, credit account id (AC04),
\* same account (AC02), debit account listed, credit account listed (AC03),
\* the two accounts' currencies equal (CU01), debit account's currency equal to
\* the instruction's (CU01), date format when a date is present (DT01), funds
\* when executing immediately (AC01), and throws nothing when none fails.
C1_FirstFailingCheckDecides ==
    Matched =>
        LET draft == parsed[1]
            listed == accountListed(draft.debitAccount) /\ accountListed(draft.creditAccount)
            debitObj == firstListed(draft.debitAccount)
            creditObj == firstListed(draft.creditAccount)
            checks ==
              <<[fails |-> amountRejected(draft), code |-> "AM01"],
                [fails |-> toUpperCase(draft.currency) \notin SUPPORTED_CURRENCIES, code |-> "CU02"],
                [fails |-> ~isValidAccountId(draft.debitAccount), code |-> "AC04"],
                [fails |-> ~isValidAccountId(draft.creditAccount), code |-> "AC04"],
                [fails |-> draft.debitAccount = draft.creditAccount, code |-> "AC02"],
                [fails |-> ~accountListed(draft.debitAccount), code |-> "AC03"],
                [fails |-> ~accountListed(draft.creditAccount), code |-> "AC03"],
                [fails |-> listed /\ toUpperCase(debitObj.currency) # toUpperCase(creditObj.currency),
                 code |-> "CU01"],
                [fails |-> listed /\ toUpperCase(debitObj.currency) # toUpperCase(draft.currency),
                 code |-> "CU01"],
                [fails |-> hasExecuteBy(draft) /\ ~isValidDateFormat(draft.executeBy[1]),
                 code |-> "DT01"],
                [fails |-> /\ listed
                           /\ shouldExecute(draft, today)
                           /\ debitObj.balance < validatedAmount(draft),
                 code |-> "AC01"]>>
            failing == {k \in DOMAIN checks : checks[k].fails}
        IN  IF failing = {} THEN statusCodeThrown = "none"
            ELSE statusCodeThrown =
                    checks[CHOOSE k \in failing : \A j \in failing : k <= j].code

\* a self-transfer whose account is not in the list was rejected with AC02
C1_Witness ==
    /\ Matched
    /\ parsed[1].debitAccount = parsed[1].creditAccount
    /\ ~accountListed(parsed[1].debitAccount)
    /\ Len(accounts) > 0
    /\ statusCodeThrown = "AC02"

\* C2: when neither matcher matched the instruction, or the draft's amount,
\* currency, debitAccount or creditAccount is empty, parseInstruction returns,
\* and does not throw, the outcome with status "failed", status_code "SY03",
\* no accounts and every transfer field null, whatever the account list is.
C2_MalformedOutcome ==
    (Called /\ (\/ ~parsed[1].matched
                \/ parsed[1].amount = <<>>
                \/ parsed[1].currency = <<>>
                \/ parsed[1].debitAccount = <<>>
                \/ parsed[1].creditAccount = <<>>))
    => /\ thrown = Null
       /\ response # Null
       /\ response[1].status = "failed"
       /\ response[1].status_code = "SY03"
       /\ response[1].accounts = <<>>
       /\ response[1].type = Null
       /\ response[1].amount = Null
       /\ response[1].currency = Null
       /\ response[1].debit_account = Null
       /\ response[1].credit_account = Null
       /\ response[1].execute_by = Null

\* a matcher matched, the credit account token is empty, the list is not
C2_Witness ==
    /\ Called
    /\ parsed[1].matched
    /\ parsed[1].creditAccount = <<>>
    /\ Len(accounts) > 0
    /\ response # Null
    /\ response[1].status_code = "SY03"

checksBeforeDatePass ==
    /\ Matched
    /\ fieldError(parsed[1]) = Null
    /\ accountListed(parsed[1].debitAccount)
    /\ accountListed(parsed[1].creditAccount)
    /\ toUpperCase(firstListed(parsed[1].debitAccount).currency)
          = toUpperCase(firstListed(parsed[1].creditAccount).currency)
    /\ toUpperCase(firstListed(parsed[1].debitAccount).currency)
          = toUpperCase(parsed[1].currency)

\* C4: when the amount, currency, account-id, same-account, existence and
\* currency-consistency checks pass and the execute-by token has the strict
\* shape and is later than today's UTC date, the outcome is "pending" with
\* AP02 and every view has balance = balance_before = input balance; the
\* funds check is not applied, however small the debit account's balance.
C4_DeferredExecution ==
    (/\ checksBeforeDatePass
     /\ hasExecuteBy(parsed[1])
     /\ strictDateShape(parsed[1].executeBy[1])
     /\ isoKey(parsed[1].executeBy[1]) > isoKey(today))
    => LET draft == parsed[1]
           resp == response[1]
       IN  /\ thrown = Null
           /\ response # Null
           /\ resp.status = "pending"
           /\ resp.status_code = "AP02"
           /\ viewsOf(draft.debitAccount) # {}
           /\ viewsOf(draft.creditAccount) # {}
           /\ \A i \in viewsOf(draft.debitAccount) :
                 /\ resp.accounts[i].balance = firstListed(draft.debitAccount).balance
                 /\ resp.accounts[i].balance_before = firstListed(draft.debitAccount).balance
           /\ \A i \in viewsOf(draft.creditAccount) :
                 /\ resp.accounts[i].balance = firstListed(draft.creditAccount).balance
                 /\ resp.accounts[i].balance_before = firstListed(draft.creditAccount).balance

\* a transfer dated after today is pending although the debit account holds
\* less than the amount
C4_Witness ==
    /\ Matched
    /\ thrown = Null
    /\ response[1].status = "pending"
    /\ response[1].status_code = "AP02"
    /\ firstListed(parsed[1].debitAccount).balance < response[1].amount[1]

\* C5: for every draft that passed the malformed test, the amount token is
\* accepted exactly when it is a non-empty string of digits whose value is
\* greater than zero; every other token is rejected with AM01, and the amount
\* of an accepted token's outcome is the integer the token denotes.
C5_AmountIsDigitString ==
    Matched =>
        LET token == parsed[1].amount
            wellFormed == digitString(token) /\ digitsValue(token) > 0
        IN  /\ ~wellFormed => statusCodeThrown = "AM01"
            /\ wellFormed => statusCodeThrown # "AM01"
            /\ (wellFormed /\ response # Null) => response[1].amount = Some(digitsValue(token))

\* C6: on every successful or pending outcome, accounts holds exactly two
\* views, one of the debit account and one of the credit account, in the
\* order in which the two accounts first appear in the input list.
C6_ExactlyTwoViews ==
    (Matched /\ thrown = Null) =>
        LET views == response[1].accounts
            d == parsed[1].debitAccount
            c == parsed[1].creditAccount
            position(id) == CHOOSE i \in DOMAIN accounts :
                               /\ accounts[i].id = id
                               /\ \A j \in DOMAIN accounts : accounts[j].id = id => i <= j
        IN  /\ Len(views) = 2
            /\ IF position(d) < position(c)
               THEN views[1].id = d /\ views[2].id = c
               ELSE views[1].id = c /\ views[2].id = d

\* C7: for every transfer and every account list, the DEBIT phrasing and the
\* CREDIT phrasing of the transfer give the same result: the same thrown
\* status code, or outcomes equal in debit_account, credit_account, amount,
\* currency, execute_by, status, status_code and accounts.
C7_PhrasingsAgree ==
    (debitOutcome # Null /\ creditOutcome # Null) =>
        LET d == debitOutcome[1]
            c == creditOutcome[1]
        IN  /\ (d.thrown = Null) <=> (c.thrown = Null)
            /\ (d.response = Null) <=> (c.response = Null)
            /\ (d.thrown # Null /\ c.thrown # Null)
                  => d.thrown[1].status_code = c.thrown[1].status_code
            /\ (d.response # Null /\ c.response # Null)
                  => /\ d.response[1].debit_account = c.response[1].debit_account
                     /\ d.response[1].credit_account = c.response[1].credit_account
                     /\ d.response[1].amount = c.response[1].amount
                     /\ d.response[1].currency = c.response[1].currency
                     /\ d.response[1].execute_by = c.response[1].execute_by
                     /\ d.response[1].status = c.response[1].status
                     /\ d.response[1].status_code = c.response[1].status_code
                     /\ d.response[1].accounts = c.response[1].accounts

\* no word of the string is ON, in either case
noOnWord(s) ==
    ~\E i \in 1 .. Len(s) - 1 :
        /\ s[i] \in {"O", "o"}
        /\ s[i + 1] \in {"N", "n"}
        /\ (i = 1 \/ s[i - 1] \in WhiteSpace)
        /\ (i + 1 = Len(s) \/ s[i + 2] \in WhiteSpace)

\* C8: for every instruction a matcher matches and that has no ON clause,
\* the draft's executeBy is null, whatever the account-id tokens are; the
\* instruction is not rejected with DT01, its outcome is not pending and the
\* outcome's execute_by is null.
C8_NoOnClauseNoDate ==
    (Called /\ parsed[1].matched /\ noOnWord(instruction)) =>
        /\ parsed[1].executeBy = Null
        /\ statusCodeThrown # "DT01"
        /\ response # Null => /\ response[1].status # "pending"
                              /\ response[1].execute_by = Null

\* C9: when an execute-by token is present and every earlier check passes,
\* the instruction is rejected with DT01 exactly when the token does not have
\* the strict shape YYYY-MM-DD (year 1000..9999, month 01..12, day 01..31).
C9_StrictDateShape ==
    (checksBeforeDatePass /\ hasExecuteBy(parsed[1])) =>
        (statusCodeThrown = "DT01" <=> ~strictDateShape(parsed[1].executeBy[1]))

\* the keyword occurs in the text at this 0-based offset, letter case ignored
occursIgnoringCase(text_, keyword_, offset) ==
    /\ offset + Len(keyword_) <= Len(text_)
    /\ \A k \in 1 .. Len(keyword_) :
          toLowerCase(<<text_[offset + k]>>) = toLowerCase(<<keyword_[k]>>)

\* C10: findKeyword(text, keyword, fromIndex) returns the 0-based offset
\* within text itself of the first occurrence of keyword, letter case
\* ignored, at or after fromIndex, and -1 when there is none.
C10_OffsetWithinText ==
    pc = "done" =>
        LET offsets == {i \in argStartIndex .. Len(argText) :
                           occursIgnoringCase(argText, argKeyword, i)}
        IN  IF offsets = {} THEN foundIndex = Some(-1)
            ELSE foundIndex = Some(CHOOSE i \in offsets : \A j \in offsets : i <= j)

=============================================================================
